---- MODULE Spec2Model ----
(***************************************************************************)
(* Multi-account EC2 instance collector (src/main.go).                     *)
(*                                                                         *)
(* main loads an accounts file into a map, launches one getEC2Instances    *)
(* goroutine per map key, waits on a sync.WaitGroup, closes and drains the *)
(* buffered result channel, prints a console table and writes a CSV file.  *)
(*                                                                         *)
(* Strings are modelled as sequences of one-character strings so that the  *)
(* CSV encoding can be computed character by character.                    *)
(***************************************************************************)
EXTENDS Integers, Sequences, FiniteSets, TLC

VARIABLES
    inputFile,     \* os.Args[1] and the content of the file it names
    cloud,         \* per account: what the AWS calls of that account answer
    pc,            \* position of main
    accounts,      \* map[string]string returned by loadAccountsFromFile
    toLaunch,      \* keys of accounts the range loop has not visited yet
    wg,            \* sync.WaitGroup counter
    results,       \* buffer of the channel results
    resultsCap,    \* capacity of the channel results
    closed,        \* close(results) has been executed
    fpc,           \* per account: position of its getEC2Instances goroutine
    instances,     \* per account: the local slice instances of its goroutine
    calls,         \* history: the (accountID, roleArn) pairs passed to go getEC2Instances
    nDrained,      \* history: number of slices received from results by main
    allInstances,  \* the merged slice of main
    console,       \* lines printed on stdout
    csvIO,         \* what the file system did to writeCSV
    csvFile,       \* bytes of the CSV file on disk
    run,           \* number of the current run of the program
    prevFile       \* bytes of the CSV file written by the previous run

vars == <<inputFile, cloud, pc, accounts, toLaunch, wg, results, resultsCap,
          closed, fpc, instances, calls, nDrained, allInstances, console,
          csvIO, csvFile, run, prevFile>>

(***************************************************************************)
(* Bounds                                                                  *)
(***************************************************************************)
MaxAccounts == 2     \* distinct account ids that may occur in an accounts file
MaxFetchers == 2     \* accounts of the files that list each account once
MaxEntries == 3      \* entries of an accounts file
MaxTags == 4         \* tags of an instance
MaxFieldLen == 3     \* characters of a free-form CSV field
MaxRuns == 2         \* runs of the program on the same data

(***************************************************************************)
(* Generic helpers                                                         *)
(***************************************************************************)
Range(s) == {s[i] : i \in DOMAIN s}

SeqsUpTo(S, n) == UNION {[1..k -> S] : k \in 0..n}

RECURSIVE Flatten(_)
Flatten(ss) == IF ss = <<>> THEN <<>> ELSE Head(ss) \o Flatten(Tail(ss))

\* number of occurrences of x in the sequence s
Count(s, x) == Cardinality({i \in DOMAIN s : s[i] = x})

\* the two sequences hold the same elements with the same multiplicities
SameBag(s, t) ==
    /\ Len(s) = Len(t)
    /\ \A x \in Range(s) \cup Range(t) : Count(s, x) = Count(t, x)

(***************************************************************************)
(* Strings of the program                                                  *)
(***************************************************************************)
NameKey == <<"N", "a", "m", "e">>                  \* the literal "Name"
NoName == <<"-">>                                  \* the literal "-"
Comma == ","                                       \* csv.Writer.Comma
Quote == "\""
LF == "\n"
CR == "\r"
Space == " "

\* header := []string{"Account ID", "Instance ID", "Tag Name", "Instance Type"}
header ==
    << <<"A", "c", "c", "o", "u", "n", "t", " ", "I", "D">>,
       <<"I", "n", "s", "t", "a", "n", "c", "e", " ", "I", "D">>,
       <<"T", "a", "g", " ", "N", "a", "m", "e">>,
       <<"I", "n", "s", "t", "a", "n", "c", "e", " ", "T", "y", "p", "e">> >>

(***************************************************************************)
(* Inputs: accounts files                                                  *)
(***************************************************************************)
AllAccountIds ==
    << <<"1", "1", "1">>, <<"2", "2", "2">>, <<"3", "3", "3">>, <<"4", "4", "4">> >>

FirstIds(n) == {AllAccountIds[i] : i \in 1..(IF n < 4 THEN n ELSE 4)}

AccountIds == FirstIds(MaxAccounts)

\* account ids that need quoting in a CSV file, and the empty id a JSON entry
\* without account_id decodes to
OddAccountIds == { <<"1", ",", "1">>, <<"\"", "1">>, <<>> }

Ids == AccountIds \cup FirstIds(MaxFetchers) \cup OddAccountIds

RoleArns == { <<"r", "A">>, <<"r", "B">> }

\* type AccountConfig struct
AccountConfig(id, arn) == [AccountID |-> id, RoleArn |-> arn]

ConfigEntries == {AccountConfig(id, arn) : id \in AccountIds, arn \in RoleArns}

\* an accounts file that decodes into a []AccountConfig
ValidFile(entries) == [kind |-> "valid", entries |-> entries]

\* no argument, an unreadable file, a file that is not a JSON array of objects
BadFiles ==
    {[kind |-> k, entries |-> <<>>] : k \in {"missing_arg", "unreadable", "malformed"}}

ConfigFiles == {ValidFile(e) : e \in SeqsUpTo(ConfigEntries, MaxEntries)}

(***************************************************************************)
(* Inputs: what the cloud holds and answers                                *)
(***************************************************************************)
Tag(k, v) == [Key |-> k, Value |-> v]

Instance(id, type, tags) == [InstanceId |-> id, InstanceType |-> type, Tags |-> tags]

T3 == <<"t", "3">>
M5 == <<"m", "5">>

\* instance ids are unique across accounts: "i-" account id, a letter
InstId(a, k) == <<"i", "-">> \o a \o <<k>>

lowerName == <<"n", "a", "m", "e">>
upperName == <<"N", "A", "M", "E">>

Inv0(a) == <<>>

Inv1(a) == << <<Instance(InstId(a, "a"), T3, <<Tag(NameKey, <<"w", "e", "b">>)>>)>> >>

Inv2(a) ==
    << <<Instance(InstId(a, "a"), T3, <<>>),
         Instance(InstId(a, "b"), M5,
                  <<Tag(lowerName, <<"x">>), Tag(NameKey, <<"a", ",", "b">>)>>)>>,
       <<Instance(InstId(a, "c"), T3,
                  <<Tag(NameKey, <<"d", "b">>), Tag(NameKey, <<"z">>)>>)>> >>

\* what one account answers: LoadDefaultConfig: ok | fail;
\* DescribeInstances: ok | fail | hang (the call never returns);
\* reservations: what the account holds
Response(l, q, r) == [loadCfg |-> l, query |-> q, reservations |-> r]

ResponseKinds == {"empty", "one", "many", "cfgfail", "queryfail", "hang"}

ResponseAt(a, k) ==
    CASE k = "empty" -> Response("ok", "ok", Inv0(a))
      [] k = "one" -> Response("ok", "ok", Inv1(a))
      [] k = "many" -> Response("ok", "ok", Inv2(a))
      [] k = "cfgfail" -> Response("fail", "ok", Inv1(a))
      [] k = "queryfail" -> Response("ok", "fail", Inv1(a))
      [] OTHER -> Response("ok", "hang", Inv1(a))

Idle == Response("ok", "ok", <<>>)

\* the clouds in which the accounts of S answer anything and the others are empty
CloudsOf(S, kinds) ==
    {[a \in Ids |-> IF a \in S THEN ResponseAt(a, f[a]) ELSE Idle] : f \in [S -> kinds]}

Clouds(S) == CloudsOf(S, ResponseKinds)

(***************************************************************************)
(* loadAccountsFromFile                                                    *)
(***************************************************************************)
EmptyMap == [k \in {} |-> <<>>]

\* accounts[acc.AccountID] = acc.RoleArn
MapPut(m, k, v) == [x \in DOMAIN m \cup {k} |-> IF x = k THEN v ELSE m[x]]

\* for _, acc := range accountConfigs { accounts[acc.AccountID] = acc.RoleArn }
RECURSIVE LoadEntries(_, _)
LoadEntries(m, entries) ==
    IF entries = <<>> THEN m
    ELSE LoadEntries(MapPut(m, Head(entries).AccountID, Head(entries).RoleArn),
                     Tail(entries))

\* faulty variant: an account id already in the map keeps its first role (first-wins)
RECURSIVE LoadEntriesFirstWins(_, _)
LoadEntriesFirstWins(m, entries) ==
    IF entries = <<>> THEN m
    ELSE LoadEntriesFirstWins(
             IF Head(entries).AccountID \in DOMAIN m THEN m
             ELSE MapPut(m, Head(entries).AccountID, Head(entries).RoleArn),
             Tail(entries))

loadAccountsFromFile_FirstWins(file) == LoadEntriesFirstWins(EmptyMap, file.entries)

loadAccountsFromFile(file) == LoadEntries(EmptyMap, file.entries)

\* err != nil from os.ReadFile or json.Unmarshal
loadFails(file) == file.kind \in {"unreadable", "malformed"}

(***************************************************************************)
(* getEC2Instances: the pure part                                          *)
(***************************************************************************)
\* tagName := "-"; for _, tag := range instance.Tags {
\*     if *tag.Key == "Name" { tagName = *tag.Value; break } }
RECURSIVE TagNameFrom(_, _)
TagNameFrom(tags, i) ==
    IF i > Len(tags) THEN NoName
    ELSE IF tags[i].Key = NameKey THEN tags[i].Value
    ELSE TagNameFrom(tags, i + 1)

\* faulty variant: the loop has no break, so the last Name tag wins
RECURSIVE TagNameLast(_, _, _)
TagNameLast(tags, i, found) ==
    IF i > Len(tags) THEN found
    ELSE TagNameLast(tags, i + 1, IF tags[i].Key = NameKey THEN tags[i].Value ELSE found)

TagName_NoBreak(tags) == TagNameLast(tags, 1, NoName)

TagName(tags) == TagNameFrom(tags, 1)

\* faulty variant: the goroutine reads the loop variable of main instead of its own
\* argument, and sees the key the loop visited last
EC2Instance_LoopVariable(accountID, instance) ==
    [AccountID |-> calls[Len(calls)][1],
     InstanceID |-> instance.InstanceId,
     TagName |-> TagName(instance.Tags),
     InstanceType |-> instance.InstanceType]

\* EC2Instance{AccountID: accountID, InstanceID: ..., TagName: ..., InstanceType: ...}
EC2Instance(accountID, instance) ==
    [AccountID |-> accountID,
     InstanceID |-> instance.InstanceId,
     TagName |-> TagName(instance.Tags),
     InstanceType |-> instance.InstanceType]

\* for _, instance := range reservation.Instances { instances = append(instances, ...) }
RECURSIVE AppendInstances(_, _, _)
AppendInstances(acc, accountID, insts) ==
    IF insts = <<>> THEN acc
    ELSE AppendInstances(Append(acc, EC2Instance(accountID, Head(insts))),
                         accountID, Tail(insts))

\* for _, reservation := range result.Reservations { ... }
RECURSIVE CollectInstances(_, _, _)
CollectInstances(acc, accountID, reservations) ==
    IF reservations = <<>> THEN acc
    ELSE CollectInstances(AppendInstances(acc, accountID, Head(reservations)),
                          accountID, Tail(reservations))

(***************************************************************************)
(* writeCSV: encoding/csv as the program uses it (Comma ',', UseCRLF false)*)
(***************************************************************************)
\* faulty variant: a field is quoted only for the delimiter and line breaks, not for a quote
fieldNeedsQuotes_QuoteForgotten(field) ==
    IF field = <<>> THEN FALSE
    ELSE IF \E i \in DOMAIN field : field[i] \in {Comma, CR, LF} THEN TRUE
    ELSE field[1] \in {Space, "\t"}

\* csv.Writer.fieldNeedsQuotes
fieldNeedsQuotes(field) ==
    IF field = <<>> THEN FALSE
    ELSE IF field = <<"\\", ".">> THEN TRUE
    ELSE IF \E i \in DOMAIN field : field[i] \in {Comma, Quote, CR, LF} THEN TRUE
    ELSE field[1] \in {Space, "\t"}

\* inside a quoted field a quote is doubled, every other character is copied
RECURSIVE EscapeQuotes(_)
EscapeQuotes(field) ==
    IF field = <<>> THEN <<>>
    ELSE (IF Head(field) = Quote THEN <<Quote, Quote>> ELSE <<Head(field)>>)
         \o EscapeQuotes(Tail(field))

writeField(field) ==
    IF fieldNeedsQuotes(field)
    THEN <<Quote>> \o EscapeQuotes(field) \o <<Quote>>
    ELSE field

\* csv.Writer.Write(record): the fields separated by Comma, then "\n"
RECURSIVE writeFields(_, _)
writeFields(record, i) ==
    IF i > Len(record) THEN <<LF>>
    ELSE (IF i > 1 THEN <<Comma>> ELSE <<>>) \o writeField(record[i])
         \o writeFields(record, i + 1)

writerWrite(record) == writeFields(record, 1)

\* record := []string{instance.AccountID, instance.InstanceID, instance.TagName,
\*                    instance.InstanceType}
csvRecord(instance) ==
    <<instance.AccountID, instance.InstanceID, instance.TagName, instance.InstanceType>>

RECURSIVE writeRows(_)
writeRows(insts) ==
    IF insts = <<>> THEN <<>>
    ELSE writerWrite(csvRecord(Head(insts))) \o writeRows(Tail(insts))

\* everything writeCSV hands to the csv.Writer
csvBytes(insts) == writerWrite(header) \o writeRows(insts)

(***************************************************************************)
(* The program                                                             *)
(***************************************************************************)
\* main has returned or the process was ended by os.Exit, log.Fatalf or a panic
Terminal == {"exit_usage", "fatal_config", "fatal_output", "done", "panic"}

Alive == pc \notin Terminal

\* faulty variant: an unbuffered channel
makeResults_Unbuffered(accts) == 0

\* results := make(chan []EC2Instance, len(accounts))
makeResults(accts) == Cardinality(DOMAIN accts)

\* faulty variant: main does not wait
wgWait_Skipped == TRUE

\* wg.Wait() returns
wgWait == wg = 0

\* err != nil after config.LoadDefaultConfig(ctx)
configErr(a) == cloud[a].loadCfg # "ok"

\* faulty variant: the call carries a deadline and returns an error when it expires
callReturns_Deadline(a) == TRUE

\* client.DescribeInstances(ctx, ...) returns: ctx is context.Background(), so the
\* call has no deadline and cannot be cancelled
callReturns(a) == cloud[a].query # "hang"

\* faulty variant: a failed query is not noticed and its response is read
queryErr_Ignored(a) == FALSE

\* err != nil after client.DescribeInstances
queryErr(a) == cloud[a].query # "ok"

\* faulty variant: allInstances = instances
appendAll_Overwrite(all, insts) == insts

\* allInstances = append(allInstances, instances...)
appendAll(all, insts) == all \o insts

RECURSIVE tableRows(_)
tableRows(insts) ==
    IF insts = <<>> THEN <<>> ELSE << <<"row", Head(insts)>> >> \o tableRows(Tail(insts))

\* the console table: separator, column titles, separator, one line per instance
\* (or the no-instances line), separator, the count line
consoleTable(insts) ==
    << <<"sep">>, <<"titles">>, <<"sep">> >>
    \o (IF Len(insts) = 0 THEN << <<"none">> >> ELSE tableRows(insts))
    \o << <<"sep">>, <<"total", Len(insts)>> >>

InitWith(file, c) ==
    /\ inputFile = file
    /\ cloud = c
    /\ pc = "start"
    /\ accounts = EmptyMap
    /\ toLaunch = {}
    /\ wg = 0
    /\ results = <<>>
    /\ resultsCap = 0
    /\ closed = FALSE
    /\ fpc = [a \in Ids |-> "idle"]
    /\ instances = [a \in Ids |-> <<>>]
    /\ calls = <<>>
    /\ nDrained = 0
    /\ allInstances = <<>>
    /\ console = <<>>
    /\ csvIO = "none"
    /\ csvFile = <<>>
    /\ run = 1
    /\ prevFile = <<>>

\* main, up to the creation of the channel
LoadAccounts ==
    /\ pc = "start"
    /\ IF inputFile.kind = "missing_arg"
       THEN /\ pc' = "exit_usage"
            /\ UNCHANGED <<accounts, toLaunch, resultsCap>>
       ELSE IF loadFails(inputFile)
       THEN /\ pc' = "fatal_config"
            /\ UNCHANGED <<accounts, toLaunch, resultsCap>>
       ELSE /\ accounts' = loadAccountsFromFile(inputFile)
            /\ toLaunch' = DOMAIN accounts'
            /\ resultsCap' = makeResults(accounts')
            /\ pc' = "launch"
    /\ UNCHANGED <<inputFile, cloud, wg, results, closed, fpc, instances, calls,
                   nDrained, allInstances, console, csvIO, csvFile, run, prevFile>>

\* one iteration of: for accountID, roleArn := range accounts { wg.Add(1); go ... }
Launch(a) ==
    /\ pc = "launch"
    /\ a \in toLaunch
    /\ toLaunch' = toLaunch \ {a}
    /\ wg' = wg + 1
    /\ fpc' = [fpc EXCEPT ![a] = "loadcfg"]
    /\ calls' = Append(calls, <<a, accounts[a]>>)
    /\ UNCHANGED <<inputFile, cloud, pc, accounts, results, resultsCap, closed,
                   instances, nDrained, allInstances, console, csvIO, csvFile,
                   run, prevFile>>

\* getEC2Instances: config.LoadDefaultConfig and its error branch
LoadDefaultConfig(a) ==
    /\ Alive
    /\ fpc[a] = "loadcfg"
    /\ IF configErr(a)
       THEN /\ instances' = [instances EXCEPT ![a] = <<>>]
            /\ fpc' = [fpc EXCEPT ![a] = "send"]
       ELSE /\ fpc' = [fpc EXCEPT ![a] = "query"]
            /\ UNCHANGED instances
    /\ UNCHANGED <<inputFile, cloud, pc, accounts, toLaunch, wg, results, resultsCap,
                   closed, calls, nDrained, allInstances, console, csvIO, csvFile,
                   run, prevFile>>

\* getEC2Instances: client.DescribeInstances, its error branch, the collection loops
DescribeInstances(a) ==
    /\ Alive
    /\ fpc[a] = "query"
    /\ callReturns(a)
    /\ instances' = [instances EXCEPT ![a] =
                        IF queryErr(a) THEN <<>>
                        ELSE CollectInstances(<<>>, a, cloud[a].reservations)]
    /\ fpc' = [fpc EXCEPT ![a] = "send"]
    /\ UNCHANGED <<inputFile, cloud, pc, accounts, toLaunch, wg, results, resultsCap,
                   closed, calls, nDrained, allInstances, console, csvIO, csvFile,
                   run, prevFile>>

\* getEC2Instances: results <- instances. A send on a closed channel panics; a
\* send on a full channel blocks.
Send(a) ==
    /\ Alive
    /\ fpc[a] = "send"
    /\ closed \/ Len(results) < resultsCap
    /\ IF closed
       THEN /\ pc' = "panic"
            /\ UNCHANGED <<results, fpc>>
       ELSE /\ results' = Append(results, instances[a])
            /\ fpc' = [fpc EXCEPT ![a] = "deferred"]
            /\ UNCHANGED pc
    /\ UNCHANGED <<inputFile, cloud, accounts, toLaunch, wg, resultsCap, closed,
                   instances, calls, nDrained, allInstances, console, csvIO,
                   csvFile, run, prevFile>>

\* getEC2Instances: the deferred wg.Done()
Done(a) ==
    /\ Alive
    /\ fpc[a] = "deferred"
    /\ wg' = wg - 1
    /\ fpc' = [fpc EXCEPT ![a] = "done"]
    /\ UNCHANGED <<inputFile, cloud, pc, accounts, toLaunch, results, resultsCap,
                   closed, instances, calls, nDrained, allInstances, console, csvIO,
                   csvFile, run, prevFile>>

\* main: wg.Wait(); close(results)
WaitAndClose ==
    /\ pc = "launch"
    /\ toLaunch = {}
    /\ wgWait
    /\ closed' = TRUE
    /\ pc' = "drain"
    /\ UNCHANGED <<inputFile, cloud, accounts, toLaunch, wg, results, resultsCap,
                   fpc, instances, calls, nDrained, allInstances, console, csvIO,
                   csvFile, run, prevFile>>

\* main: one iteration, or the end, of: for instances := range results { ... }
Drain ==
    /\ pc = "drain"
    /\ results # <<>> \/ closed
    /\ IF results # <<>>
       THEN /\ allInstances' = appendAll(allInstances, Head(results))
            /\ results' = Tail(results)
            /\ nDrained' = nDrained + 1
            /\ UNCHANGED pc
       ELSE /\ pc' = "print"
            /\ UNCHANGED <<allInstances, results, nDrained>>
    /\ UNCHANGED <<inputFile, cloud, accounts, toLaunch, wg, resultsCap, closed, fpc,
                   instances, calls, console, csvIO, csvFile, run, prevFile>>

\* main: the console table
PrintTable ==
    /\ pc = "print"
    /\ console' = consoleTable(allInstances)
    /\ pc' = "csv"
    /\ UNCHANGED <<inputFile, cloud, accounts, toLaunch, wg, results, resultsCap,
                   closed, fpc, instances, calls, nDrained, allInstances, csvIO,
                   csvFile, run, prevFile>>

\* what the file system may do to writeCSV: every call succeeds; os.Create fails;
\* the buffered bytes are lost in the deferred writer.Flush(), whose error writeCSV
\* never reads (the output fits the bufio buffer, so no writer.Write fails before)
CsvOutcomes == {"ok", "create_fails", "flush_fails"}

\* main: writeCSV(outputFile, allInstances) and the lines after it
WriteCSV ==
    /\ pc = "csv"
    /\ \E io \in CsvOutcomes :
        /\ csvIO' = io
        /\ csvFile' = IF io = "ok" THEN csvBytes(allInstances) ELSE <<>>
        /\ pc' = IF io = "create_fails" THEN "fatal_output" ELSE "done"
        /\ console' = IF io = "create_fails" THEN console
                      ELSE Append(console, <<"saved">>)
    /\ UNCHANGED <<inputFile, cloud, accounts, toLaunch, wg, results, resultsCap,
                   closed, fpc, instances, calls, nDrained, allInstances, run,
                   prevFile>>

Next ==
    \/ LoadAccounts
    \/ \E a \in Ids : Launch(a)
    \/ \E a \in Ids : LoadDefaultConfig(a)
    \/ \E a \in Ids : DescribeInstances(a)
    \/ \E a \in Ids : Send(a)
    \/ \E a \in Ids : Done(a)
    \/ WaitAndClose
    \/ Drain
    \/ PrintTable
    \/ WriteCSV

Keys(file) == {file.entries[i].AccountID : i \in DOMAIN file.entries}

\* the accounts files that list the first n accounts once each
ListFiles ==
    {ValidFile([i \in 1..n |-> AccountConfig(AllAccountIds[i], <<"r", "A">>)]) :
        n \in 0..(IF MaxFetchers < 4 THEN MaxFetchers ELSE 4)}

\* every accounts file that lists each account once, and every unusable one, with
\* every cloud
Init ==
    \E file \in ListFiles \cup BadFiles : \E c \in Clouds(Keys(file)) : InitWith(file, c)

Spec == Init /\ [][Next]_vars

(***************************************************************************)
(* Every accounts file, repeated account ids included, with a cloud in     *)
(* which every account holds one instance                                  *)
(***************************************************************************)
InitLoad ==
    \E file \in ConfigFiles \cup BadFiles :
        \E c \in CloudsOf(Keys(file), {"one"}) : InitWith(file, c)

SpecLoad == InitLoad /\ [][Next]_vars

(***************************************************************************)
(* Scheduling: the Go runtime eventually runs every goroutine that can     *)
(* take a step; a goroutine blocked in a call or on the channel cannot.    *)
(***************************************************************************)
MainStep ==
    \/ LoadAccounts
    \/ \E a \in Ids : Launch(a)
    \/ WaitAndClose
    \/ Drain
    \/ PrintTable
    \/ WriteCSV

FetcherStep(a) ==
    \/ LoadDefaultConfig(a)
    \/ DescribeInstances(a)
    \/ Send(a)
    \/ Done(a)

Fairness == WF_vars(MainStep) /\ \A a \in Ids : WF_vars(FetcherStep(a))

\* one kind of answer per way a fetcher can end
FairKinds == {"many", "cfgfail", "queryfail", "hang"}

InitFair ==
    \E file \in ListFiles \cup BadFiles :
        \E c \in CloudsOf(Keys(file), FairKinds) : InitWith(file, c)

FairSpec == InitFair /\ [][Next]_vars /\ Fairness

(***************************************************************************)
(* Two runs of the program on the same accounts file and the same cloud    *)
(***************************************************************************)
\* the program is started again: the CSV file of the finished run stays on disk
\* (the file name carries the start time), everything else starts afresh
Rerun ==
    /\ pc = "done"
    /\ run < MaxRuns
    /\ run' = run + 1
    /\ prevFile' = [io |-> csvIO, bytes |-> csvFile]
    /\ pc' = "start"
    /\ accounts' = EmptyMap
    /\ toLaunch' = {}
    /\ wg' = 0
    /\ results' = <<>>
    /\ resultsCap' = 0
    /\ closed' = FALSE
    /\ fpc' = [a \in Ids |-> "idle"]
    /\ instances' = [a \in Ids |-> <<>>]
    /\ calls' = <<>>
    /\ nDrained' = 0
    /\ allInstances' = <<>>
    /\ console' = <<>>
    /\ csvIO' = "none"
    /\ csvFile' = <<>>
    /\ UNCHANGED <<inputFile, cloud>>

NextTwice == Next \/ Rerun

\* the answers with which a run ends and writes its file
TwiceKinds == {"empty", "one", "many", "queryfail"}

InitTwice ==
    \E file \in ListFiles : \E c \in CloudsOf(Keys(file), TwiceKinds) : InitWith(file, c)

SpecTwice == InitTwice /\ [][NextTwice]_vars

(***************************************************************************)
(* One account with one instance, whose tags range over every tag list     *)
(***************************************************************************)
TagKeys == {NameKey, lowerName, upperName}

TagValues == { <<"w">>, <<"d">> }

TagPool == {Tag(k, v) : k \in TagKeys, v \in TagValues}

TagLists == SeqsUpTo(TagPool, MaxTags)

OneAccountFile(id) == ValidFile(<<AccountConfig(id, <<"r", "A">>)>>)

OneAccountCloud(id, reservations) ==
    [a \in Ids |-> IF a = id THEN Response("ok", "ok", reservations) ELSE Idle]

InitTags ==
    \E tags \in TagLists :
        InitWith(OneAccountFile(AllAccountIds[1]),
                 OneAccountCloud(AllAccountIds[1],
                     << <<Instance(InstId(AllAccountIds[1], "a"), T3, tags)>> >>))

SpecTags == InitTags /\ [][Next]_vars

(***************************************************************************)
(* One account with two instances, whose fields range over the strings a   *)
(* CSV writer has to quote                                                 *)
(***************************************************************************)
CsvAlphabet == {"a", Comma, Quote, Space, LF, CR}

Fields == SeqsUpTo(CsvAlphabet, MaxFieldLen)

InitCSV ==
    \E id \in {AllAccountIds[1]} \cup OddAccountIds :
        \E name \in Fields :
            \E iid \in {InstId(id, "a"), <<"\\", ".">>} :
                InitWith(OneAccountFile(id),
                         OneAccountCloud(id,
                             << <<Instance(iid, T3, <<Tag(NameKey, name)>>)>>,
                                <<Instance(InstId(id, "b"), <<>>, <<>>)>> >>))

SpecCSV == InitCSV /\ [][Next]_vars

(***************************************************************************)
(* Vocabulary of the properties                                            *)
(***************************************************************************)
\* the goroutine of account a was started and has not yet run its wg.Done()
Running(a) == fpc[a] \in {"loadcfg", "query", "send", "deferred"}

\* main is past the drain loop
Drained == pc \in {"print", "csv", "done", "fatal_output"}

\* the records of account a in the sequence s, in the order of s
OfAccount(s, a) == SelectSeq(s, LAMBDA r : r.AccountID = a)

\* the instance ids account a holds, in reservation order, then instance order
ProviderIds(a) ==
    LET all == Flatten(cloud[a].reservations)
    IN  [i \in DOMAIN all |-> all[i].InstanceId]

RecordIds(s) == [i \in DOMAIN s |-> s[i].InstanceID]

\* every record held anywhere in the program
AllRecords ==
    Range(allInstances)
    \cup UNION {Range(results[i]) : i \in DOMAIN results}
    \cup UNION {Range(instances[a]) : a \in Ids}

\* the role_arn of the last entry of the file that carries account id
LastRoleArn(file, id) ==
    LET last == CHOOSE i \in DOMAIN file.entries :
                    /\ file.entries[i].AccountID = id
                    /\ \A j \in DOMAIN file.entries :
                           file.entries[j].AccountID = id => j <= i
    IN  file.entries[last].RoleArn

\* the sequences that list every element of the finite set S exactly once
Orders(S) ==
    {o \in [1..Cardinality(S) -> S] : \A i, j \in DOMAIN o : o[i] = o[j] => i = j}

RECURSIVE Blocks(_, _)
Blocks(order, f) ==
    IF order = <<>> THEN <<>> ELSE f[Head(order)] \o Blocks(Tail(order), f)

\* the four strings of a record, as a CSV row should carry them
RowOf(r) == <<r.AccountID, r.InstanceID, r.TagName, r.InstanceType>>

RowsOf(s) == [i \in DOMAIN s |-> RowOf(s[i])]

\* A reader of CSV text (RFC 4180, with LF or CR LF ending a row). Its state: the
\* rows read, the fields of the current row, the characters of the current field,
\* and mode, the reader's place: "row" at the start of a row, "field" at the start
\* of a further field, "plain" in an unquoted field, "quoted" in a quoted field,
\* "quote" after a quote met in a quoted field.
Reader(mode, field, row, out) == [mode |-> mode, field |-> field, row |-> row, out |-> out]

\* the reader's state after the character b[i]
ReadChar(st, b, i) ==
    LET c == b[i]
        endField == Reader("field", <<>>, Append(st.row, st.field), st.out)
        endRow == Reader("row", <<>>, <<>>, Append(st.out, Append(st.row, st.field)))
        crlf == c = CR /\ i < Len(b) /\ b[i + 1] = LF
    IN  CASE st.mode \in {"row", "field"} ->
                 IF c = Quote THEN Reader("quoted", <<>>, st.row, st.out)
                 ELSE IF c = Comma THEN endField
                 ELSE IF c = LF THEN (IF st.mode = "row" THEN st ELSE endRow)
                 ELSE Reader("plain", <<c>>, st.row, st.out)
          [] st.mode = "plain" ->
                 IF c = Comma THEN endField
                 ELSE IF c = LF THEN endRow
                 ELSE IF crlf THEN st
                 ELSE Reader("plain", Append(st.field, c), st.row, st.out)
          [] st.mode = "quoted" ->
                 IF c = Quote THEN Reader("quote", st.field, st.row, st.out)
                 ELSE Reader("quoted", Append(st.field, c), st.row, st.out)
          [] OTHER ->
                 IF c = Quote THEN Reader("quoted", Append(st.field, Quote), st.row, st.out)
                 ELSE IF c = Comma THEN endField
                 ELSE IF c = LF THEN endRow
                 ELSE IF crlf THEN st
                 ELSE Reader("plain", Append(st.field, c), st.row, st.out)

\* the reader's state after the characters b[lo] .. b[hi]
RECURSIVE ReadRange(_, _, _, _)
ReadRange(st, b, lo, hi) ==
    IF lo > hi THEN st
    ELSE IF lo = hi THEN ReadChar(st, b, lo)
    ELSE LET mid == (lo + hi) \div 2
             left == ReadRange(st, b, lo, mid)
         IN  \* the test on left makes TLC compute the left half before the right
             IF left.mode = "" THEN left ELSE ReadRange(left, b, mid + 1, hi)

\* the rows of the CSV text b
ParseCSV(b) ==
    LET end == ReadRange(Reader("row", <<>>, <<>>, <<>>), b, 1, Len(b))
    IN  IF end.mode = "row" THEN end.out
        ELSE Append(end.out, Append(end.row, end.field))

\* the account's load of the configuration or its inventory query fails
FetchFails(a) == cloud[a].loadCfg = "fail" \/ cloud[a].query = "fail"

\* the account's inventory query never returns
Hangs(a) == cloud[a].loadCfg = "ok" /\ cloud[a].query = "hang"

\* the instance of the cloud that carries the instance id of record r
SourceOf(r) ==
    LET all == Flatten(cloud[r.AccountID].reservations)
    IN  all[CHOOSE i \in DOMAIN all : all[i].InstanceId = r.InstanceID]

(***************************************************************************)
(* C1: while any launched fetcher is still running, main has drained       *)
(* nothing from the channel, printed no console line and written no CSV    *)
(* byte: the barrier is passed only after every fetcher has completed.     *)
(***************************************************************************)
C1_BarrierBeforeOutput ==
    (\E a \in Ids : Running(a)) =>
        /\ nDrained = 0
        /\ allInstances = <<>>
        /\ console = <<>>
        /\ csvIO = "none"
        /\ csvFile = <<>>
        /\ ~closed

\* one fetcher has deposited its result and finished, another is still running,
\* and main stands at wg.Wait()
C1_Witness ==
    /\ pc = "launch"
    /\ toLaunch = {}
    /\ Len(results) >= 1
    /\ \E a, b \in Ids : Running(a) /\ fpc[b] = "done" /\ instances[b] # <<>>

(***************************************************************************)
(* C3: for a valid accounts file with K unique account_id values the       *)
(* fetcher is started exactly K times, once per unique account_id, and for *)
(* a repeated account_id with the role_arn of the last entry carrying it.  *)
(***************************************************************************)
C3_OncePerUniqueAccount ==
    /\ \A a \in Ids : Cardinality({i \in DOMAIN calls : calls[i][1] = a}) <= 1
    /\ \A i \in DOMAIN calls :
           /\ calls[i][1] \in Keys(inputFile)
           /\ calls[i][2] = LastRoleArn(inputFile, calls[i][1])
    /\ (pc # "start" /\ toLaunch = {} /\ inputFile.kind = "valid") =>
           /\ Len(calls) = Cardinality(Keys(inputFile))
           /\ \A a \in Keys(inputFile) : \E i \in DOMAIN calls : calls[i][1] = a

\* a file of three entries, two of them for the same account with different
\* roles, after both fetchers have been started
C3_Witness ==
    /\ Len(inputFile.entries) >= 3
    /\ Cardinality(Keys(inputFile)) = 2
    /\ \E i, j \in DOMAIN inputFile.entries :
           /\ i < j
           /\ inputFile.entries[i].AccountID = inputFile.entries[j].AccountID
           /\ inputFile.entries[i].RoleArn # inputFile.entries[j].RoleArn
    /\ Len(calls) = 2
    /\ pc = "done"

(***************************************************************************)
(* C8: every instance record, in a fetcher's local list, in the channel or *)
(* in the merged list, carries an account_id that is a key of the loaded   *)
(* mapping and is the account whose inventory holds that instance; a       *)
(* fetcher's local list holds only records labelled with its own account.  *)
(***************************************************************************)
C8_RecordsCarryOwnAccount ==
    /\ \A r \in AllRecords :
           /\ r.AccountID \in DOMAIN accounts
           /\ r.InstanceID \in Range(ProviderIds(r.AccountID))
    /\ \A a \in Ids : \A r \in Range(instances[a]) : r.AccountID = a

\* the merged list holds records of two different accounts
C8_Witness ==
    /\ Drained
    /\ \E r1, r2 \in Range(allInstances) : r1.AccountID # r2.AccountID

(***************************************************************************)
(* C9: after the drain the merged list is the concatenation, in some order *)
(* of the accounts, of the lists the fetchers delivered: each delivered    *)
(* record occurs exactly once and nothing else occurs, the records of one  *)
(* account are contiguous and in the provider's order (reservation order,  *)
(* then instance order); only the order of the accounts' blocks is free.   *)
(***************************************************************************)
C9_MergeIsUnionOfBlocks ==
    Drained =>
        /\ \E order \in Orders(DOMAIN accounts) :
               allInstances = Blocks(order, instances)
        /\ \A a \in DOMAIN accounts :
               /\ instances[a] # <<>> =>
                      RecordIds(OfAccount(allInstances, a)) = ProviderIds(a)
               /\ \A r \in Range(instances[a]) : Count(allInstances, r) = 1
        /\ \A r \in Range(allInstances) : r \in Range(instances[r.AccountID])

\* two accounts delivered records and the block of the account launched second
\* comes first in the merged list
C9_Witness ==
    /\ pc = "done"
    /\ Len(calls) = 2
    /\ instances[calls[1][1]] # <<>>
    /\ Len(instances[calls[2][1]]) = 3
    /\ allInstances = instances[calls[2][1]] \o instances[calls[1][1]]

(***************************************************************************)
(* C2: a fetch never fails outward. A fetcher whose configuration load or  *)
(* inventory query fails delivers an empty list; after the drain the       *)
(* merged list holds no record of a failing account and exactly the        *)
(* provider's instances of every other account; the process never ends in  *)
(* a fatal error or a panic because of a fetch (only an unusable accounts  *)
(* file or a CSV file that cannot be created is fatal); and when every     *)
(* call returns, main reaches the CSV write, whichever accounts fail.      *)
(***************************************************************************)
C2_Safety ==
    /\ \A a \in Ids :
           (FetchFails(a) /\ fpc[a] \in {"send", "deferred", "done"}) => instances[a] = <<>>
    /\ Drained =>
           \A a \in DOMAIN accounts :
               RecordIds(OfAccount(allInstances, a)) =
                   IF FetchFails(a) THEN <<>> ELSE ProviderIds(a)
    /\ pc # "panic"
    /\ pc = "fatal_config" => inputFile.kind \in {"unreadable", "malformed"}
    /\ pc = "fatal_output" => csvIO = "create_fails"
    /\ pc = "exit_usage" => inputFile.kind = "missing_arg"

C2_FetchNeverFailsOutward ==
    /\ []C2_Safety
    /\ (inputFile.kind = "valid" /\ \A a \in Ids : ~Hangs(a)) => <>(csvIO # "none")

\* one account's query failed although the account holds an instance, the other
\* account's records are in the merged list, and the CSV file is written
C2_Witness ==
    /\ pc = "done"
    /\ csvIO = "ok"
    /\ \E a, b \in DOMAIN accounts :
           /\ cloud[a].query = "fail"
           /\ ProviderIds(a) # <<>>
           /\ OfAccount(allInstances, a) = <<>>
           /\ Len(OfAccount(allInstances, b)) = 3

(***************************************************************************)
(* C4: the tag_name of every instance record is the value of the first tag *)
(* of the instance, in the provider's order, whose key is exactly "Name",  *)
(* and "-" when the instance has no such tag (also when it has no tag);    *)
(* tags whose key differs from "Name" in case only do not count.           *)
(***************************************************************************)
C4_TagNameIsFirstNameTag ==
    \A r \in AllRecords :
        LET tags == SourceOf(r).Tags
            named == {i \in DOMAIN tags : tags[i].Key = <<"N", "a", "m", "e">>}
        IN  IF named = {}
            THEN r.TagName = <<"-">>
            ELSE \E i \in named : (\A j \in named : i <= j) /\ r.TagName = tags[i].Value

\* an instance whose tags are name, Name, Name with different values: the record
\* carries the value of the first Name tag
C4_Witness ==
    /\ pc = "done"
    /\ \E r \in Range(allInstances) :
           /\ SourceOf(r).Tags = <<Tag(lowerName, <<"d">>), Tag(NameKey, <<"w">>),
                                   Tag(NameKey, <<"d">>)>>
           /\ r.TagName = <<"w">>

(***************************************************************************)
(* C5 as claimed: two runs on the same accounts file and the same          *)
(* inventory write CSV files with identical content, the same rows in the  *)
(* same sequence, whatever the scheduling of the fetchers.                 *)
(***************************************************************************)
BothFilesWritten == run >= 2 /\ pc = "done" /\ csvIO = "ok" /\ prevFile.io = "ok"

C5_Original_IdenticalContent == BothFilesWritten => csvFile = prevFile.bytes

(***************************************************************************)
(* C5 as amended: two runs on the same accounts file and the same          *)
(* inventory write CSV files with the same header and the same rows with   *)
(* the same multiplicities, the rows of each account in the same order;    *)
(* the order of the accounts' blocks of rows may differ between the runs.  *)
(***************************************************************************)
RowsOfAccount(rows, a) == SelectSeq(rows, LAMBDA row : row[1] = a)

C5_SameRowsUpToAccountOrder ==
    BothFilesWritten =>
        LET now == ParseCSV(csvFile)
            before == ParseCSV(prevFile.bytes)
        IN  /\ Len(now) >= 1
            /\ Len(before) >= 1
            /\ Head(now) = Head(before)
            /\ SameBag(Tail(now), Tail(before))
            /\ \A a \in Ids : RowsOfAccount(Tail(now), a) = RowsOfAccount(Tail(before), a)

\* two runs wrote their files with the two accounts' blocks in opposite orders
C5_Witness ==
    /\ BothFilesWritten
    /\ csvFile # prevFile.bytes
    /\ Len(ParseCSV(csvFile)) = 5

(***************************************************************************)
(* C6: when the CSV write succeeds for a merged list of N records, the     *)
(* file holds exactly 1 + N rows: first the header Account ID, Instance ID,*)
(* Tag Name, Instance Type, then one row per record in list order with the *)
(* fields account_id, instance_id, tag_name, instance_type; reading the    *)
(* file back yields the records of the list.                               *)
(***************************************************************************)
C6_CsvRoundTrip ==
    (pc = "done" /\ csvIO = "ok") =>
        LET rows == ParseCSV(csvFile)
        IN  /\ Len(rows) = 1 + Len(allInstances)
            /\ Head(rows) = header
            /\ Tail(rows) = RowsOf(allInstances)
            /\ SameBag(Tail(rows), RowsOf(allInstances))

\* a written file whose first record has an account id and a tag name that need
\* quoting, the tag name holding a quote
C6_Witness ==
    /\ pc = "done"
    /\ csvIO = "ok"
    /\ Len(allInstances) = 2
    /\ Quote \in Range(allInstances[1].TagName)
    /\ Comma \in Range(allInstances[1].AccountID)

(***************************************************************************)
(* C7: a failed or hanging call of one account does not block the other    *)
(* fetchers: every launched fetcher whose own calls return completes and   *)
(* has deposited its result. But while some account's call never returns,  *)
(* main never passes the barrier: the channel is never closed or drained,  *)
(* no console line is printed and no CSV file is written.                  *)
(***************************************************************************)
C7_Stalled ==
    (\E b \in DOMAIN accounts : Hangs(b)) =>
        /\ pc \in {"start", "launch"}
        /\ ~closed
        /\ nDrained = 0
        /\ console = <<>>
        /\ csvIO = "none"
        /\ \A a \in Ids : fpc[a] = "done" => \E i \in DOMAIN results : results[i] = instances[a]

\* the fetcher of every account of the file whose calls return has finished
ReturningFetchersDone ==
    \A a \in Ids :
        (inputFile.kind = "valid" /\ a \in Keys(inputFile) /\ ~Hangs(a)) => fpc[a] = "done"

C7_HangStallsOnlyTheBarrier == []C7_Stalled /\ <>[]ReturningFetchersDone

\* one account hangs in its query, the other has delivered three records and
\* finished, and main stands at wg.Wait()
C7_Witness ==
    /\ pc = "launch"
    /\ toLaunch = {}
    /\ \E a, b \in DOMAIN accounts :
           /\ Hangs(a)
           /\ fpc[a] = "query"
           /\ fpc[b] = "done"
           /\ results = <<instances[b]>>
           /\ Len(instances[b]) = 3

(***************************************************************************)
(* C10: the fan-out cannot deadlock. Every fetcher sends exactly one list  *)
(* and then signals completion exactly once; no send finds the channel     *)
(* full, because its capacity is the number of accounts, although main     *)
(* reads only after the barrier and the close; no send meets a closed      *)
(* channel; and when every account's calls return, the run terminates.     *)
(***************************************************************************)
C10_Safety ==
    /\ \A a \in Ids : fpc[a] = "send" => Len(results) < resultsCap /\ ~closed
    /\ pc # "panic"
    /\ Len(results) + nDrained = Cardinality({a \in Ids : fpc[a] \in {"deferred", "done"}})
    /\ wg = Cardinality({a \in Ids : Running(a)})
    /\ nDrained > 0 => closed

C10_NoDeadlock ==
    /\ []C10_Safety
    /\ (\A a \in Ids : ~Hangs(a)) => <>(pc \in Terminal)

\* every fetcher has sent, the channel is full, and main has not started to read
C10_Witness ==
    /\ pc = "launch"
    /\ resultsCap >= 2
    /\ Len(results) = resultsCap
    /\ ~closed
    /\ \E a \in Ids : fpc[a] = "deferred"

====
